---- MODULE Spec2Model ----
(***************************************************************************)
(* build_make_deck.py: main() reads a template and two payload files,      *)
(* substitutes two placeholder tokens, writes the result to make_deck.new, *)
(* marks it executable and either removes it (make_deck already holds the  *)
(* same text) or renames it onto make_deck.                                *)
(*                                                                         *)
(* Texts are sequences of one-character strings.  A file is a record of    *)
(* its bytes, its permission bits and a logical modification time (the     *)
(* number of the run that last wrote it, 0 for files older than run 1).    *)
(***************************************************************************)
EXTENDS Integers, Sequences, FiniteSets, TLC

VARIABLES fs, pc, template_content, simple_template, extractor_content,
          result, existing, out, failedAt, run, fs0, prev

vars == <<fs, pc, template_content, simple_template, extractor_content,
          result, existing, out, failedAt, run, fs0, prev>>

locals == <<template_content, simple_template, extractor_content, result, existing>>

hist == <<run, fs0, prev>>

-----------------------------------------------------------------------------
(* Bounds of the model *)

\* pieces a template file is assembled from
MaxPieces == 2

\* successive runs of main() on the same working directory
MaxRuns == 2

-----------------------------------------------------------------------------
(* Program constants *)

TEMPLATE_PATH == "make_deck.template.sh"
SIMPLE_PATH == "pandoc/templates/simple_beamer.latex"
EXTRACTOR_PATH == "scripts/extract_pptx_theme.py"
NEW_PATH == "make_deck.new"
DEST_PATH == "make_deck"

Paths == {TEMPLATE_PATH, SIMPLE_PATH, EXTRACTOR_PATH, NEW_PATH, DEST_PATH}

\* '__SIMPLE_BEAMER_CONTENT__'
SIMPLE_TOKEN ==
  <<"_","_","S","I","M","P","L","E","_","B","E","A","M","E","R","_",
    "C","O","N","T","E","N","T","_","_">>

\* '__EXTRACT_PPTX_THEME_CONTENT__'
EXTRACT_TOKEN ==
  <<"_","_","E","X","T","R","A","C","T","_","P","P","T","X","_",
    "T","H","E","M","E","_","C","O","N","T","E","N","T","_","_">>

\* 0o755
MODE_EXEC == 493

\* mode of a file created by open(path, 'w'): 0o666 under umask 022
MODE_CREATE == 420

\* a mode without the owner-read bit (0o200)
MODE_WRITE_ONLY == 128

UP_TO_DATE == "make_deck is already up to date"
UPDATED == "Updated make_deck executable"

LF == "\n"
CR == "\r"

-----------------------------------------------------------------------------
(* Texts *)

\* s[i..] starts with p
StartsAt(s, i, p) ==
  /\ i + Len(p) - 1 <= Len(s)
  /\ \A j \in 1..Len(p) : s[i + j - 1] = p[j]

\* str.find(p, i): the first position from i on where p starts, 0 if none
Find(s, i, p) ==
  LET at == {j \in i..(Len(s) - Len(p) + 1) : StartsAt(s, j, p)}
  IN  IF at = {} THEN 0 ELSE CHOOSE j \in at : \A k \in at : j <= k

\* str.replace(old, new) for a non-empty old: left-to-right scan, each match
\* replaced and the scan resumed after it, the inserted text never rescanned
RECURSIVE ReplaceFrom(_, _, _, _)
ReplaceFrom(s, i, old, new) ==
  LET j == Find(s, i, old)
  IN  IF j = 0 THEN SubSeq(s, i, Len(s))
      ELSE SubSeq(s, i, j - 1) \o new \o ReplaceFrom(s, j + Len(old), old, new)

\* a replace that stops after the first match
ReplaceFirstOnly(s, old, new) ==
  LET j == Find(s, 1, old)
  IN  IF j = 0 THEN s
      ELSE SubSeq(s, 1, j - 1) \o new \o SubSeq(s, j + Len(old), Len(s))

Replace(s, old, new) == ReplaceFrom(s, 1, old, new)

\* start positions of the non-overlapping occurrences of sub in s, as
\* str.find / str.count find them (the empty text occurs at every position)
RECURSIVE OccFrom(_, _, _)
OccFrom(s, i, sub) ==
  LET j == Find(s, i, sub)
  IN  IF j = 0 THEN <<>>
      ELSE <<j>> \o OccFrom(s, IF Len(sub) = 0 THEN j + 1 ELSE j + Len(sub), sub)

Occ(s, sub) == OccFrom(s, 1, sub)

Count(s, sub) == Len(Occ(s, sub))

Chars(s) == {s[i] : i \in 1..Len(s)}

\* f.read() of a file opened with mode 'r' (newline=None): universal newlines,
\* every "\r\n" and every lone "\r" reads as "\n"
RECURSIVE TextReadFrom(_, _)
TextReadFrom(b, i) ==
  LET j == Find(b, i, <<CR>>)
  IN  IF j = 0 THEN SubSeq(b, i, Len(b))
      ELSE SubSeq(b, i, j - 1) \o <<LF>>
           \o TextReadFrom(b, IF j < Len(b) /\ b[j + 1] = LF THEN j + 2 ELSE j + 1)

TextRead(b) == TextReadFrom(b, 1)

\* os.linesep on the POSIX systems the script targets (chmod 0o755, shell script)
LINESEP == <<LF>>

\* f.write() of a file opened with mode 'w' (newline=None): every "\n" is
\* written as os.linesep
TextWrite(t) == Replace(t, <<LF>>, LINESEP)

\* lines 24-25 as one expression
Render(t, s, e) == Replace(Replace(t, SIMPLE_TOKEN, s), EXTRACT_TOKEN, e)

-----------------------------------------------------------------------------
(* Files *)

Absent == [exists |-> FALSE, bytes |-> <<>>, mode |-> 0, mtime |-> 0]

File(b, m, t) == [exists |-> TRUE, bytes |-> b, mode |-> m, mtime |-> t]

\* the owner-read bit (0o400)
Readable(f) == (f.mode \div 256) % 2 = 1

\* open(path, 'r') succeeds
CanRead(f) == f.exists /\ Readable(f)

-----------------------------------------------------------------------------
(* The working directories main() is started in *)

\* an ordinary line of the template
LINE == <<"a", LF>>

\* what a template file is assembled from: an ordinary line, the two
\* tokens, and each token without its leading "__" (so that a token can
\* overlap the "__" that ends the token before it)
Pieces ==
  {LINE, SIMPLE_TOKEN, EXTRACT_TOKEN,
   SubSeq(SIMPLE_TOKEN, 3, Len(SIMPLE_TOKEN)),
   SubSeq(EXTRACT_TOKEN, 3, Len(EXTRACT_TOKEN))}

RECURSIVE Assembled(_)
Assembled(n) ==
  IF n = 0 THEN {<<>>}
  ELSE Assembled(n - 1) \cup {t \o p : t \in Assembled(n - 1), p \in Pieces}

\* bytes of make_deck.template.sh
TemplateBytes == Assembled(MaxPieces)

\* bytes of pandoc/templates/simple_beamer.latex: empty, plain, or holding
\* one of the tokens
SimpleBytes == {<<>>, <<"x">>, SIMPLE_TOKEN, EXTRACT_TOKEN}

\* bytes of scripts/extract_pptx_theme.py: plain, equal to the other
\* payload, or a line with a DOS line ending
ExtractorBytes == {<<"y">>, <<"x">>, <<"y", CR, LF>>}

\* an input file: missing, unreadable, or readable with one of the contents
InputFiles(contents) ==
  {Absent, File(<<>>, MODE_WRITE_ONLY, 0)} \cup {File(b, MODE_CREATE, 0) : b \in contents}

\* a make_deck.new left behind by an earlier, failed run
STALE == <<"s", "t", "a", "l", "e">>

\* a make_deck built from older inputs
OLD == <<"o", "l", "d", LF>>

\* the text with DOS line endings
Dos(t) == Replace(t, <<LF>>, <<CR, LF>>)

\* what main() would write to make_deck.new from these input files
RenderedBytes(t, s, e) ==
  TextWrite(Render(TextRead(t.bytes), TextRead(s.bytes), TextRead(e.bytes)))

\* make_deck before the first run: missing, built from older inputs and not
\* executable, or
\* already holding the rendered text (executable or not, unreadable, or
\* with DOS line endings)
DestFiles(t, s, e) ==
  {Absent, File(OLD, MODE_CREATE, 0)}
  \cup IF CanRead(t) /\ CanRead(s) /\ CanRead(e)
       THEN LET r == RenderedBytes(t, s, e)
            IN  {File(r, MODE_EXEC, 0), File(r, MODE_CREATE, 0),
                 File(r, MODE_WRITE_ONLY, 0), File(Dos(r), MODE_EXEC, 0)}
       ELSE {}

NewFiles == {Absent, File(STALE, MODE_CREATE, 0)}

NoText == <<>>

NoRun == [out |-> <<>>, dest0 |-> Absent, pc |-> "none"]

Init ==
  /\ \E t \in InputFiles(TemplateBytes), s \in InputFiles(SimpleBytes),
        e \in InputFiles(ExtractorBytes) :
       \E d \in DestFiles(t, s, e), n \in NewFiles :
         fs = [p \in Paths |->
                 CASE p = TEMPLATE_PATH -> t
                   [] p = SIMPLE_PATH -> s
                   [] p = EXTRACTOR_PATH -> e
                   [] p = DEST_PATH -> d
                   [] OTHER -> n]
  /\ pc = "read_template"
  /\ template_content = NoText
  /\ simple_template = NoText
  /\ extractor_content = NoText
  /\ result = NoText
  /\ existing = NoText
  /\ out = <<>>
  /\ failedAt = "none"
  /\ run = 1
  /\ fs0 = fs
  /\ prev = NoRun

-----------------------------------------------------------------------------
(* main() *)

\* an exception leaves main(): nothing else happens in this run
Raise ==
  /\ pc' = "error"
  /\ failedAt' = pc

\* lines 12-13
ReadTemplate ==
  /\ pc = "read_template"
  /\ IF CanRead(fs[TEMPLATE_PATH])
     THEN /\ template_content' = TextRead(fs[TEMPLATE_PATH].bytes)
          /\ pc' = "read_simple"
          /\ UNCHANGED failedAt
     ELSE /\ Raise
          /\ UNCHANGED template_content
  /\ UNCHANGED <<fs, simple_template, extractor_content, result, existing, out, hist>>

\* lines 16-17
ReadSimple ==
  /\ pc = "read_simple"
  /\ IF CanRead(fs[SIMPLE_PATH])
     THEN /\ simple_template' = TextRead(fs[SIMPLE_PATH].bytes)
          /\ pc' = "read_extractor"
          /\ UNCHANGED failedAt
     ELSE /\ Raise
          /\ UNCHANGED simple_template
  /\ UNCHANGED <<fs, template_content, extractor_content, result, existing, out, hist>>

\* lines 20-21, with the exception swallowed and the payload taken as empty
ReadExtractorLenient ==
  /\ pc = "read_extractor"
  /\ extractor_content' =
       IF CanRead(fs[EXTRACTOR_PATH]) THEN TextRead(fs[EXTRACTOR_PATH].bytes) ELSE NoText
  /\ pc' = "replace_simple"
  /\ UNCHANGED <<fs, template_content, simple_template, result, existing, out, failedAt, hist>>

\* lines 20-21
ReadExtractor ==
  /\ pc = "read_extractor"
  /\ IF CanRead(fs[EXTRACTOR_PATH])
     THEN /\ extractor_content' = TextRead(fs[EXTRACTOR_PATH].bytes)
          /\ pc' = "replace_simple"
          /\ UNCHANGED failedAt
     ELSE /\ Raise
          /\ UNCHANGED extractor_content
  /\ UNCHANGED <<fs, template_content, simple_template, result, existing, out, hist>>

\* line 24
ReplaceSimple ==
  /\ pc = "replace_simple"
  /\ result' = Replace(template_content, SIMPLE_TOKEN, simple_template)
  /\ pc' = "replace_extractor"
  /\ UNCHANGED <<fs, template_content, simple_template, extractor_content, existing,
                 out, failedAt, hist>>

\* line 25
ReplaceExtractor ==
  /\ pc = "replace_extractor"
  /\ result' = Replace(result, EXTRACT_TOKEN, extractor_content)
  /\ pc' = "open_new"
  /\ UNCHANGED <<fs, template_content, simple_template, extractor_content, existing,
                 out, failedAt, hist>>

\* the path lines 28-29 write to, were the result written in place
WRITE_IN_PLACE == DEST_PATH

\* the path lines 28-29 write to
WRITE_PATH == NEW_PATH

\* open(path, 'w'): an existing file is truncated and keeps its mode, a
\* missing one is created
Truncated(f) ==
  IF f.exists THEN File(<<>>, f.mode, run) ELSE File(<<>>, MODE_CREATE, run)

\* what a write that fails part-way (disk full, interrupt) may leave of b
Partial(b) == {SubSeq(b, 1, k) : k \in {0, Len(b) \div 2}}

\* line 28: open('make_deck.new', 'w'), or the OSError it raises
OpenNew ==
  /\ pc = "open_new"
  /\ \/ /\ fs' = [fs EXCEPT ![WRITE_PATH] = Truncated(@)]
        /\ pc' = "write_new"
        /\ UNCHANGED failedAt
     \/ /\ Raise
        /\ UNCHANGED fs
  /\ UNCHANGED <<locals, out, hist>>

\* line 29 and the close of the with block: the whole text is written, or
\* only part of it and the OSError leaves main()
WriteNew ==
  /\ pc = "write_new"
  /\ \/ /\ fs' = [fs EXCEPT ![WRITE_PATH].bytes = TextWrite(result)]
        /\ pc' = "chmod_new"
        /\ UNCHANGED failedAt
     \/ /\ \E b \in Partial(TextWrite(result)) :
             fs' = [fs EXCEPT ![WRITE_PATH].bytes = b]
        /\ Raise
  /\ UNCHANGED <<locals, out, hist>>

\* line 32 left out
ChmodSkipped ==
  /\ pc = "chmod_new"
  /\ pc' = "read_dest"
  /\ UNCHANGED <<fs, locals, out, failedAt, hist>>

\* line 32: os.chmod('make_deck.new', 0o755), or the OSError it raises
ChmodNew ==
  /\ pc = "chmod_new"
  /\ \/ /\ fs' = [fs EXCEPT ![NEW_PATH].mode = MODE_EXEC]
        /\ pc' = "read_dest"
        /\ UNCHANGED failedAt
     \/ /\ Raise
        /\ UNCHANGED fs
  /\ UNCHANGED <<locals, out, hist>>

\* lines 35-37, 42-43 with `except OSError` in place of FileNotFoundError
ReadDestCatchAll ==
  /\ pc = "read_dest"
  /\ IF CanRead(fs[DEST_PATH])
     THEN /\ existing' = TextRead(fs[DEST_PATH].bytes)
          /\ pc' = "compare"
     ELSE /\ pc' = "rename_new"
          /\ UNCHANGED existing
  /\ UNCHANGED <<fs, template_content, simple_template, extractor_content, result,
                 out, failedAt, hist>>

\* lines 35-37, 42-43: a missing make_deck raises FileNotFoundError, which
\* is caught; any other failure of open() leaves main()
ReadDest ==
  /\ pc = "read_dest"
  /\ IF ~fs[DEST_PATH].exists
     THEN /\ pc' = "rename_new"
          /\ UNCHANGED <<existing, failedAt>>
     ELSE IF ~Readable(fs[DEST_PATH])
     THEN /\ Raise
          /\ UNCHANGED existing
     ELSE /\ existing' = TextRead(fs[DEST_PATH].bytes)
          /\ pc' = "compare"
          /\ UNCHANGED failedAt
  /\ UNCHANGED <<fs, template_content, simple_template, extractor_content, result,
                 out, hist>>

\* a comparison that never finds the texts equal
NeverSame(a, b) == FALSE

\* line 38: existing == result
Same(a, b) == a = b

\* lines 38-39
Compare ==
  /\ pc = "compare"
  /\ IF Same(existing, result)
     THEN /\ out' = Append(out, UP_TO_DATE)
          /\ pc' = "remove_new"
     ELSE /\ pc' = "rename_new"
          /\ UNCHANGED out
  /\ UNCHANGED <<fs, locals, failedAt, hist>>

\* lines 40-41 with the os.remove left out
RemoveSkipped ==
  /\ pc = "remove_new"
  /\ pc' = "done"
  /\ UNCHANGED <<fs, locals, out, failedAt, hist>>

\* lines 40-41: os.remove('make_deck.new') and return, or the OSError
RemoveNew ==
  /\ pc = "remove_new"
  /\ \/ /\ fs' = [fs EXCEPT ![NEW_PATH] = Absent]
        /\ pc' = "done"
        /\ UNCHANGED failedAt
     \/ /\ Raise
        /\ UNCHANGED fs
  /\ UNCHANGED <<locals, out, hist>>

\* line 46: os.rename('make_deck.new', 'make_deck') replaces make_deck in
\* one step, or raises OSError and changes nothing
RenameNew ==
  /\ pc = "rename_new"
  /\ \/ /\ fs' = [fs EXCEPT ![DEST_PATH] = fs[NEW_PATH], ![NEW_PATH] = Absent]
        /\ pc' = "print_updated"
        /\ UNCHANGED failedAt
     \/ /\ Raise
        /\ UNCHANGED fs
  /\ UNCHANGED <<locals, out, hist>>

\* line 47
PrintUpdated ==
  /\ pc = "print_updated"
  /\ out' = Append(out, UPDATED)
  /\ pc' = "done"
  /\ UNCHANGED <<fs, locals, failedAt, hist>>

\* lines 49-50: after a run that completed, the script is started again in
\* the same directory, the files as that run left them
Rerun ==
  /\ pc = "done"
  /\ run < MaxRuns
  /\ run' = run + 1
  /\ prev' = [out |-> out, dest0 |-> fs0[DEST_PATH], pc |-> pc]
  /\ fs0' = fs
  /\ pc' = "read_template"
  /\ template_content' = NoText
  /\ simple_template' = NoText
  /\ extractor_content' = NoText
  /\ result' = NoText
  /\ existing' = NoText
  /\ out' = <<>>
  /\ failedAt' = "none"
  /\ UNCHANGED fs

Next ==
  \/ ReadTemplate
  \/ ReadSimple
  \/ ReadExtractor
  \/ ReplaceSimple
  \/ ReplaceExtractor
  \/ OpenNew
  \/ WriteNew
  \/ ChmodNew
  \/ ReadDest
  \/ Compare
  \/ RemoveNew
  \/ RenameNew
  \/ PrintUpdated
  \/ Rerun

Spec == Init /\ [][Next]_vars

-----------------------------------------------------------------------------
(* Vocabulary of the properties *)

Dest == fs[DEST_PATH]
Dest0 == fs0[DEST_PATH]
New == fs[NEW_PATH]
New0 == fs0[NEW_PATH]

InputReads == {"read_template", "read_simple", "read_extractor"}

\* all three input files can be read in this run
InputsReadable ==
  CanRead(fs0[TEMPLATE_PATH]) /\ CanRead(fs0[SIMPLE_PATH]) /\ CanRead(fs0[EXTRACTOR_PATH])

\* the bytes of the rendered output of this run's input files
Expected == RenderedBytes(fs0[TEMPLATE_PATH], fs0[SIMPLE_PATH], fs0[EXTRACTOR_PATH])

\* the text after line 24
Intermediate == Replace(template_content, SIMPLE_TOKEN, simple_template)

\* a payload that is not empty and shares no character with the tokens or
\* with the text it is inserted into
Clean(payload, text) ==
  /\ payload # <<>>
  /\ Chars(payload) \cap (Chars(SIMPLE_TOKEN) \cup Chars(EXTRACT_TOKEN) \cup Chars(text)) = {}

\* after is before with every occurrence of token replaced by payload:
\* no token left, and the i-th payload starts where the i-th token did,
\* shifted by the length changes of the i-1 replacements before it
Substituted(before, token, payload, after) ==
  /\ Count(after, token) = 0
  /\ Len(Occ(after, payload)) = Len(Occ(before, token))
  /\ \A i \in 1..Len(Occ(before, token)) :
       Occ(after, payload)[i] = Occ(before, token)[i] + (i - 1) * (Len(payload) - Len(token))

-----------------------------------------------------------------------------
(* Properties *)

\* C1: two completed runs in succession on unchanged inputs, the first
\* started with make_deck absent or different in bytes from the rendered
\* output: the first run reports "Updated", the second "already up to
\* date", and make_deck holds the same bytes after both.
C1_Idempotence ==
  (/\ run >= 2
   /\ pc = "done"
   /\ prev.pc = "done"
   /\ (~prev.dest0.exists \/ prev.dest0.bytes # TextWrite(result)))
  => /\ prev.out = <<UPDATED>>
     /\ out = <<UP_TO_DATE>>
     /\ Dest.exists
     /\ Dest.bytes = Dest0.bytes

\* C2: a completed run started with make_deck absent, or present with
\* bytes other than the rendered output, reports "Updated" and leaves
\* make_deck holding exactly the rendered bytes; a missing make_deck never
\* makes the read of make_deck fail.
C2_UpdatedWhenAbsentOrDifferent ==
  /\ (pc = "done" /\ (~Dest0.exists \/ Dest0.bytes # TextWrite(result)))
     => /\ out = <<UPDATED>>
        /\ Dest.exists
        /\ Dest.bytes = TextWrite(result)
  /\ (pc = "error" /\ ~Dest0.exists) => failedAt # "read_dest"

\* C3: when make_deck exists at the start of the run with exactly the
\* rendered bytes, then in every state of the run make_deck is the file it
\* was (bytes, mode and modification time), and a run that completes has
\* printed "already up to date" and nothing else.
\* (Written as "untouched, or the run did not start that way", so that the
\* rendered bytes are computed only in the states that have left the
\* untouched path.)
C3_DestUntouchedOnNoChange ==
  \/ /\ Dest = Dest0
     /\ pc \notin {"rename_new", "print_updated"}
     /\ pc = "done" => out = <<UP_TO_DATE>>
  \/ ~(InputsReadable /\ Dest0.exists /\ Dest0.bytes = Expected)

C3_Witness ==
  /\ pc = "done"
  /\ run = 1
  /\ Dest0.exists
  /\ Dest0.bytes = Expected
  /\ Len(Expected) > 0
  /\ out = <<UP_TO_DATE>>

C5_NoTempAfterSuccess ==
  pc = "done" => ~New.exists

C5_Witness ==
  /\ pc = "done"
  /\ run = 1
  /\ New0.exists
  /\ out = <<UP_TO_DATE>>
  /\ ~New.exists

\* C6: a run in which an input file cannot be read never gets past the
\* three reads: it ends in the error of that read, prints nothing, and
\* make_deck and make_deck.new stay the files they were.
C6_InputReadFailure ==
  /\ ~InputsReadable
     => /\ pc \in InputReads \cup {"error"}
        /\ out = <<>>
        /\ fs = fs0
  /\ (pc = "error" /\ failedAt \in InputReads)
     => /\ ~CanRead(fs0[CASE failedAt = "read_template" -> TEMPLATE_PATH
                          [] failedAt = "read_simple" -> SIMPLE_PATH
                          [] OTHER -> EXTRACTOR_PATH])
        /\ out = <<>>
        /\ fs = fs0

C6_Witness ==
  /\ pc = "error"
  /\ failedAt = "read_extractor"
  /\ CanRead(fs0[TEMPLATE_PATH])
  /\ CanRead(fs0[SIMPLE_PATH])
  /\ New0.exists
  /\ Dest0.exists

\* C7: make_deck.new has mode 0o755 from the chmod until it is renamed, so
\* make_deck has mode 0o755 as soon as it is renamed over and when
\* "Updated" has been printed.
C7_ExecutableAfterUpdated ==
  /\ pc \in {"read_dest", "compare", "rename_new"} => New.exists /\ New.mode = MODE_EXEC
  /\ (pc = "print_updated" \/ (pc = "done" /\ out = <<UPDATED>>))
     => Dest.exists /\ Dest.mode = MODE_EXEC

C7_Witness ==
  /\ pc = "done"
  /\ out = <<UPDATED>>
  /\ Dest0.exists
  /\ Dest0.mode # MODE_EXEC
  /\ Dest.mode = MODE_EXEC

\* C8: when a placeholder does not occur in the template, the rendered
\* output is the template with only the other placeholder substituted;
\* when neither occurs, it is the template text.
C8_AbsentPlaceholderNoOp ==
  pc = "open_new"
  => /\ Count(template_content, EXTRACT_TOKEN) = 0
        => result = Replace(template_content, SIMPLE_TOKEN, simple_template)
     /\ Count(template_content, SIMPLE_TOKEN) = 0
        => result = Replace(template_content, EXTRACT_TOKEN, extractor_content)
     /\ (Count(template_content, SIMPLE_TOKEN) = 0
         /\ Count(template_content, EXTRACT_TOKEN) = 0)
        => result = template_content

\* C9: when make_deck exists but cannot be read, the run ends in the error
\* of that read: no message is printed, make_deck stays the file it was,
\* the comparison, the remove and the rename are never reached, and the
\* written, executable make_deck.new is left behind.  The read of make_deck
\* fails only on a make_deck that exists.
C9_DestReadErrorPropagates ==
  /\ (InputsReadable /\ Dest0.exists /\ ~Readable(Dest0))
     => /\ pc \notin {"compare", "remove_new", "rename_new", "print_updated", "done"}
        /\ out = <<>>
        /\ Dest = Dest0
  /\ (pc = "error" /\ failedAt = "read_dest")
     => /\ Dest0.exists
        /\ ~Readable(Dest0)
        /\ out = <<>>
        /\ Dest = Dest0
        /\ New.exists
        /\ New.bytes = TextWrite(result)
        /\ New.mode = MODE_EXEC

C9_Witness ==
  /\ pc = "error"
  /\ failedAt = "read_dest"
  /\ ~Readable(Dest0)
  /\ New.exists
  /\ ~New0.exists

\* C10: in every state of a run, the states in which a step has failed
\* included, make_deck is either the file it was when the run started or
\* holds the whole rendered output with mode 0o755.
C10_AtomicReplacement ==
  \/ Dest = Dest0
  \/ /\ InputsReadable
     /\ Dest.exists
     /\ Dest.bytes = Expected
     /\ Dest.mode = MODE_EXEC

C10_Witness ==
  /\ pc = "error"
  /\ failedAt = "write_new"
  /\ Len(Expected) >= 2
  /\ New.bytes # Expected
  /\ New.bytes # <<>>
  /\ Dest0.exists
  /\ Dest0.bytes # Expected
  /\ Dest = Dest0

====
